---- MODULE Spec2Model ----
(***************************************************************************)
(* A model of GoFlow (go_flow.go): the fluent builder FlowEngine /         *)
(* ElseFlowEngine, the node kinds with their Run / ImplTask methods, the   *)
(* shared result cell, and the goroutines of ParallelNode.ImplTask.        *)
(***************************************************************************)
EXTENDS Integers, Sequences, FiniteSets, TLC

VARIABLES
    nodes,          \* FlowEngine.nodes: the node list, in insertion order
    result,         \* *FlowEngine.result: the shared result cell
    elseEngine,     \* an ElseFlowEngine has been handed out by If
    onSuccessFunc,  \* FlowEngine.onSuccessFunc is set
    onFailFunc,     \* FlowEngine.onFailFunc is set
    elseOnSuccessFunc, \* ElseFlowEngine.onSuccessFunc is set (the sub-builder
    elseOnFailFunc,    \* ElseFlowEngine.onFailFunc       that If returned last)
    pc,             \* "build" | "run" | "par" | "done" | "crashed"
    idx,            \* position of Wait's loop over the node list
    waits,          \* number of Wait calls started
    waiter,         \* the receiver of the last Wait call: "FlowEngine" |
                    \* "ElseFlowEngine" ("none" before the first call)
    returned,       \* the value the last completed Wait returned
    resultChan,     \* ParallelNode.ImplTask: buffered contents of resultChan
    closed,         \* ParallelNode.ImplTask: resultChan has been closed
    wg,             \* ParallelNode.ImplTask: the WaitGroup counter
    tasks,          \* ParallelNode.ImplTask: one record per launched goroutine
    local,          \* ParallelNode.ImplTask: the local variable result
    stray,          \* goroutines of an earlier Parallel node still to send
    trace,          \* history: the hook, condition, callback and sequential closure
                    \* calls of this Wait, in order (a Parallel node's closure
                    \* calls are the steps of its tasks)
    firstFail       \* history: the first failing value an ImplTask returned

vars == <<nodes, result, elseEngine, onSuccessFunc, onFailFunc, elseOnSuccessFunc,
          elseOnFailFunc, pc, idx, waits, waiter, returned, resultChan, closed, wg,
          tasks, local, stray, trace, firstFail>>

builderVars == <<nodes, elseEngine, onSuccessFunc, onFailFunc, elseOnSuccessFunc,
                 elseOnFailFunc>>
callbackVars == <<onSuccessFunc, onFailFunc, elseOnSuccessFunc, elseOnFailFunc>>
waitVars == <<waits, waiter, returned>>
parVars == <<resultChan, closed, wg, tasks, local>>

(***************************************************************************)
(* Bounds of the model.                                                    *)
(***************************************************************************)
MaxNodes == 3
MaxChain == 4
MaxSeqFunctors == 3
MaxSeqTimes == 3
MaxParFunctors == 3
MaxCallbackNodes == 2
MaxHookNodes == 2
MaxLoggerNodes == 2
MaxRepeatNodes == 3
MaxWaits == 2
MaxFairFunctors == 2

(***************************************************************************)
(* NodeType                                                                *)
(***************************************************************************)
NormalNodeType == "Normal"
IfNodeType == "If"
ElseNodeType == "Else"
ForNodeType == "For"
ParallelNodeType == "Parallel"
ElseIfNodeType == "ElseIf"

(***************************************************************************)
(* ResultTest values.  Nil is the nil pointer; Src names the call that     *)
(* allocated the record (node, closure, iteration), which is what tells    *)
(* two records with equal fields apart.                                    *)
(***************************************************************************)
NoErr == "nil"
SomethingWrong == "something wrong"
ConditionNotFoundError == "condition is nil"
PanicHappened == "panic happened"

NilResult == [Nil |-> TRUE, Err |-> NoErr, StatusCode |-> 0, Src |-> <<0, 0, 0>>]

tempResult == [Nil |-> FALSE, Err |-> NoErr, StatusCode |-> 0, Src |-> <<0, 0, 0>>]

ConditionMissingIgnored(i) ==
    [Nil |-> FALSE, Err |-> NoErr, StatusCode |-> 0, Src |-> <<i, 0, 0>>]

ConditionMissingResult(i) ==
    [Nil |-> FALSE, Err |-> ConditionNotFoundError, StatusCode |-> 0, Src |-> <<i, 0, 0>>]

PanicResult(i, j) ==
    [Nil |-> FALSE, Err |-> PanicHappened, StatusCode |-> 0, Src |-> <<i, j, 0>>]

\* result != nil && (result.Err != nil || result.StatusCode != 0)
IsFailingNoStatus(r) == ~r.Nil /\ r.Err # NoErr
IsFailing(r) == ~r.Nil /\ (r.Err # NoErr \/ r.StatusCode # 0)

(***************************************************************************)
(* The closures of the example file: what each returns when called as      *)
(* closure j of node i in iteration it of a For node (0 elsewhere).        *)
(* FuncPanic is a closure that panics; it returns nothing.  FailSecond is  *)
(* a closure with a counter: its second call in a loop fails.              *)
(***************************************************************************)
Returning == {"Func1", "Func2", "Func8", "Func9"}
Panicking == {"FuncPanic"}

Call(f, i, j, it) ==
    CASE f = "Func1" -> [Nil |-> FALSE, Err |-> NoErr, StatusCode |-> 0, Src |-> <<i, j, it>>]
      [] f = "Func2" -> NilResult
      [] f = "Func8" -> [Nil |-> FALSE, Err |-> SomethingWrong, StatusCode |-> 0, Src |-> <<i, j, it>>]
      [] f = "Func9" -> [Nil |-> FALSE, Err |-> NoErr, StatusCode |-> 10000, Src |-> <<i, j, it>>]
      [] f = "FailSecond" ->
            [Nil |-> FALSE, Err |-> IF it = 2 THEN SomethingWrong ELSE NoErr,
             StatusCode |-> 0, Src |-> <<i, j, it>>]
      [] OTHER -> NilResult

\* Condition closures; NoCond is a nil Condition field.
NoCond == "nil"
CondValue(c) == c = "CondTrue"

(***************************************************************************)
(* History events.                                                         *)
(***************************************************************************)
Event(e, i, j, it, r) == [ev |-> e, node |-> i, fn |-> j, it |-> it, arg |-> r]


(***************************************************************************)
(* Nodes.  One record shape for every kind: Condition is used by If and    *)
(* ElseIf, Times by For.  Next is the index of the successor in the list,  *)
(* 0 for a nil link.                                                       *)
(***************************************************************************)
NoLogger == "nil"

NewBasicFlowNode(nodeType, functors) ==
    [Functors |-> functors, NodeType |-> nodeType, Next |-> 0, ShouldSkip |-> FALSE,
     BeginLogger |-> NoLogger, EndLogger |-> NoLogger,
     Condition |-> NoCond, Times |-> 0]

NewNormalNode(functors) == NewBasicFlowNode(NormalNodeType, functors)
NewElseNode(functors) == NewBasicFlowNode(ElseNodeType, functors)
NewIfNode(condition, functors) ==
    [NewBasicFlowNode(IfNodeType, functors) EXCEPT !.Condition = condition]
NewElseIfNode(condition, functors) ==
    [NewBasicFlowNode(ElseIfNodeType, functors) EXCEPT !.Condition = condition]
NewForNode(times, functors) ==
    [NewBasicFlowNode(ForNodeType, functors) EXCEPT !.Times = times]
NewParallelNode(functors) == NewBasicFlowNode(ParallelNodeType, functors)

\* c.nodes[len(c.nodes)-1].SetNext(node); c.nodes = append(c.nodes, node)
AppendNode(ns, node) ==
    IF Len(ns) # 0
    THEN Append([ns EXCEPT ![Len(ns)].Next = Len(ns) + 1], node)
    ELSE Append(ns, node)

(***************************************************************************)
(* The short-circuit gate at the head of every Run method.                 *)
(***************************************************************************)
GateNoStatus(n, cell) == n.ShouldSkip \/ cell.Err # NoErr
GateNoErr(n, cell) == n.ShouldSkip \/ cell.StatusCode # 0
Gate(n, cell) == n.ShouldSkip \/ cell.Err # NoErr \/ cell.StatusCode # 0

(***************************************************************************)
(* for _, functor := range Functors: call each closure in order and stop   *)
(* at the first failing result.  res is that result, NilResult when the    *)
(* loop ran to its end; calls are the calls made; panic is set when a      *)
(* closure panicked (the panic unwinds through Run and Wait).              *)
(***************************************************************************)
RECURSIVE RunFunctors(_, _, _, _)
RunFunctors(fs, i, j, it) ==
    IF j > Len(fs)
    THEN [res |-> NilResult, calls |-> <<>>, panic |-> FALSE]
    ELSE IF fs[j] \in Panicking
    THEN [res |-> NilResult, calls |-> <<Event("call", i, j, it, NilResult)>>, panic |-> TRUE]
    ELSE LET r == Call(fs[j], i, j, it)
             e == Event("call", i, j, it, r)
         IN IF IsFailing(r)
            THEN [res |-> r, calls |-> <<e>>, panic |-> FALSE]
            ELSE LET rest == RunFunctors(fs, i, j + 1, it)
                 IN [rest EXCEPT !.calls = <<e>> \o rest.calls]

\* for i := 0; i < f.Times; i++ { ... }: iteration it of times.
ForLoopOnce(fs, i, it, times) ==
    IF times <= 0
    THEN [res |-> NilResult, calls |-> <<>>, panic |-> FALSE]
    ELSE RunFunctors(fs, i, 1, 1)

RECURSIVE ForLoop(_, _, _, _)
ForLoop(fs, i, it, times) ==
    IF it > times
    THEN [res |-> NilResult, calls |-> <<>>, panic |-> FALSE]
    ELSE LET r == RunFunctors(fs, i, 1, it)
         IN IF IsFailing(r.res) \/ r.panic
            THEN r
            ELSE LET rest == ForLoop(fs, i, it + 1, times)
                 IN [rest EXCEPT !.calls = r.calls \o rest.calls]

\* current := Next; for current != nil && (ElseIf or Else) { SetShouldSkip(true); current = GetNext() }
SkipNone(ns, cur) == ns

SkipNext(ns, cur) ==
    IF cur # 0 /\ cur <= Len(ns)
    THEN [ns EXCEPT ![cur].ShouldSkip = TRUE]
    ELSE ns

SkipFirst(ns, cur) ==
    IF cur # 0 /\ cur <= Len(ns) /\ ns[cur].NodeType \in {ElseIfNodeType, ElseNodeType}
    THEN [ns EXCEPT ![cur].ShouldSkip = TRUE]
    ELSE ns

RECURSIVE SkipSiblings(_, _)
SkipSiblings(ns, cur) ==
    IF cur # 0 /\ cur <= Len(ns) /\ ns[cur].NodeType \in {ElseIfNodeType, ElseNodeType}
    THEN SkipSiblings([ns EXCEPT ![cur].ShouldSkip = TRUE], ns[cur].Next)
    ELSE ns

(***************************************************************************)
(* ImplTask of the sequential kinds.  Each yields the returned pointer     *)
(* (ret), the node list after it (the skip flags it set), the closure and  *)
(* condition calls it made, and whether a closure panicked.                *)
(***************************************************************************)
ElseNodeImplTask(ns, i, cell) ==
    LET r == RunFunctors(ns[i].Functors, i, 1, 0)
    IN [ret |-> IF IsFailing(r.res) THEN r.res ELSE cell,
        nodes |-> ns, calls |-> r.calls, panic |-> r.panic]

ForNodeImplTask(ns, i, cell) ==
    LET r == ForLoop(ns[i].Functors, i, 1, ns[i].Times)
    IN [ret |-> IF IsFailing(r.res) THEN r.res ELSE cell,
        nodes |-> ns, calls |-> r.calls, panic |-> r.panic]

IfNodeImplTask(ns, i, cell) ==
    IF ns[i].Condition = NoCond
    THEN [ret |-> ConditionMissingResult(i), nodes |-> ns, calls |-> <<>>, panic |-> FALSE]
    ELSE LET c == CondValue(ns[i].Condition)
             ce == Event("cond", i, 0, 0, NilResult)
             r == IF c THEN RunFunctors(ns[i].Functors, i, 1, 0)
                       ELSE [res |-> NilResult, calls |-> <<>>, panic |-> FALSE]
         IN IF IsFailing(r.res) \/ r.panic
            THEN [ret |-> r.res, nodes |-> ns, calls |-> <<ce>> \o r.calls, panic |-> r.panic]
            ELSE [ret |-> cell, nodes |-> SkipSiblings(ns, ns[i].Next),
                  calls |-> <<ce>> \o r.calls, panic |-> FALSE]

ElseIfNodeImplTask(ns, i, cell) ==
    IF ns[i].Condition = NoCond
    THEN [ret |-> ConditionMissingResult(i), nodes |-> ns, calls |-> <<>>, panic |-> FALSE]
    ELSE LET c == CondValue(ns[i].Condition)
             ce == Event("cond", i, 0, 0, NilResult)
             r == IF c THEN RunFunctors(ns[i].Functors, i, 1, 0)
                       ELSE [res |-> NilResult, calls |-> <<>>, panic |-> FALSE]
         IN IF IsFailing(r.res) \/ r.panic
            THEN [ret |-> r.res, nodes |-> ns, calls |-> <<ce>> \o r.calls, panic |-> r.panic]
            ELSE [ret |-> cell, nodes |-> SkipSiblings(ns, ns[i].Next),
                  calls |-> <<ce>> \o r.calls, panic |-> FALSE]

\* Dispatch on the dynamic type.  NewNormalNode builds an ElseNode with
\* NodeType Normal, so a Do node runs ElseNode.Run / ElseNode.ImplTask.
ImplTask(ns, i, cell) ==
    CASE ns[i].NodeType = IfNodeType -> IfNodeImplTask(ns, i, cell)
      [] ns[i].NodeType = ElseIfNodeType -> ElseIfNodeImplTask(ns, i, cell)
      [] ns[i].NodeType = ForNodeType -> ForNodeImplTask(ns, i, cell)
      [] OTHER -> ElseNodeImplTask(ns, i, cell)

BeginEvents(n, i) ==
    IF n.BeginLogger # NoLogger THEN <<Event("begin", i, 0, 0, NilResult)>> ELSE <<>>

EndEvents(n, i, cell) ==
    IF n.EndLogger # NoLogger THEN <<Event("end", i, 0, 0, cell)>> ELSE <<>>

WriteBackAlways(ret, cell) == ret

\* if result != nil { SetParentResult(result) }
WriteBack(ret, cell) == IF ~ret.Nil THEN ret ELSE cell

NoteFail(ff, ret) == IF ff.Nil /\ IsFailing(ret) THEN ret ELSE ff

(***************************************************************************)
(* Initial state: NewFlowEngine().                                         *)
(***************************************************************************)
Init ==
    /\ nodes = <<>>
    /\ result = tempResult
    /\ elseEngine = FALSE
    /\ onSuccessFunc = FALSE
    /\ onFailFunc = FALSE
    /\ elseOnSuccessFunc = FALSE
    /\ elseOnFailFunc = FALSE
    /\ pc = "build"
    /\ idx = 0
    /\ waits = 0
    /\ waiter = "none"
    /\ returned = NilResult
    /\ resultChan = <<>>
    /\ closed = FALSE
    /\ wg = 0
    /\ tasks = <<>>
    /\ local = NilResult
    /\ stray = FALSE
    /\ trace = <<>>
    /\ firstFail = NilResult

runVars == <<result, pc, idx, waits, waiter, returned, resultChan, closed, wg, tasks, local, stray,
             trace, firstFail>>

(***************************************************************************)
(* Builder calls.  Do, For, Parallel and If exist on FlowEngine and on     *)
(* ElseFlowEngine with the same effect on the shared list; ElseIf and Else *)
(* exist on ElseFlowEngine only, so they need a sub-builder to be called   *)
(* on.  FlowEngine.If returns a new sub-builder, whose callback fields are *)
(* unset; the model follows the sub-builder returned last.  max bounds the *)
(* length of the list.                                                     *)
(***************************************************************************)
Do(functors, max) ==
    /\ pc = "build" /\ Len(nodes) < max
    /\ nodes' = AppendNode(nodes, NewNormalNode(functors))
    /\ UNCHANGED <<elseEngine, callbackVars, runVars>>

For(times, functors, max) ==
    /\ pc = "build" /\ Len(nodes) < max
    /\ nodes' = AppendNode(nodes, NewForNode(times, functors))
    /\ UNCHANGED <<elseEngine, callbackVars, runVars>>

Parallel(functors, max) ==
    /\ pc = "build" /\ Len(nodes) < max
    /\ nodes' = AppendNode(nodes, NewParallelNode(functors))
    /\ UNCHANGED <<elseEngine, callbackVars, runVars>>

If(condition, functors, max) ==
    /\ pc = "build" /\ Len(nodes) < max
    /\ nodes' = AppendNode(nodes, NewIfNode(condition, functors))
    /\ elseEngine' = TRUE
    /\ elseOnSuccessFunc' = FALSE
    /\ elseOnFailFunc' = FALSE
    /\ UNCHANGED <<onSuccessFunc, onFailFunc, runVars>>

\* (*e.nodes)[len(*e.nodes)-1].SetNext(node) without a length test: the list
\* holds the If node at least.
ElseIf(condition, functors, max) ==
    /\ pc = "build" /\ Len(nodes) < max
    /\ elseEngine
    /\ nodes' = AppendNode(nodes, NewElseIfNode(condition, functors))
    /\ UNCHANGED <<elseEngine, callbackVars, runVars>>

Else(functors, max) ==
    /\ pc = "build" /\ Len(nodes) < max
    /\ elseEngine
    /\ nodes' = AppendNode(nodes, NewElseNode(functors))
    /\ UNCHANGED <<elseEngine, callbackVars, runVars>>

SetBeginLogger(logger) ==
    /\ pc = "build"
    /\ nodes' = IF Len(nodes) # 0
                THEN [nodes EXCEPT ![Len(nodes)].BeginLogger = logger]
                ELSE nodes
    /\ UNCHANGED <<elseEngine, callbackVars, runVars>>

SetEndLogger(logger) ==
    /\ pc = "build"
    /\ nodes' = IF Len(nodes) # 0
                THEN [nodes EXCEPT ![Len(nodes)].EndLogger = logger]
                ELSE nodes
    /\ UNCHANGED <<elseEngine, callbackVars, runVars>>

SetGlobalBeginLoggerOverwrite(logger) ==
    /\ pc = "build"
    /\ nodes' = [k \in 1..Len(nodes) |-> [nodes[k] EXCEPT !.BeginLogger = logger]]
    /\ UNCHANGED <<elseEngine, callbackVars, runVars>>

SetGlobalBeginLogger(logger) ==
    /\ pc = "build"
    /\ nodes' = [k \in 1..Len(nodes) |->
                    IF nodes[k].BeginLogger = NoLogger
                    THEN [nodes[k] EXCEPT !.BeginLogger = logger]
                    ELSE nodes[k]]
    /\ UNCHANGED <<elseEngine, callbackVars, runVars>>

SetGlobalEndLogger(logger) ==
    /\ pc = "build"
    /\ nodes' = [k \in 1..Len(nodes) |->
                    IF nodes[k].EndLogger = NoLogger
                    THEN [nodes[k] EXCEPT !.EndLogger = logger]
                    ELSE nodes[k]]
    /\ UNCHANGED <<elseEngine, callbackVars, runVars>>

\* ElseFlowEngine.If appends like FlowEngine.If and returns its receiver.
ElseFlowEngineIf(condition, functors, max) ==
    /\ pc = "build" /\ Len(nodes) < max
    /\ elseEngine
    /\ nodes' = AppendNode(nodes, NewIfNode(condition, functors))
    /\ UNCHANGED <<elseEngine, callbackVars, runVars>>

OnFail ==
    /\ pc = "build"
    /\ onFailFunc' = TRUE
    /\ UNCHANGED <<nodes, elseEngine, elseOnSuccessFunc, elseOnFailFunc, onSuccessFunc,
                   runVars>>

OnSuccess ==
    /\ pc = "build"
    /\ onSuccessFunc' = TRUE
    /\ UNCHANGED <<nodes, elseEngine, elseOnSuccessFunc, elseOnFailFunc, onFailFunc,
                   runVars>>

ElseOnFail ==
    /\ pc = "build" /\ elseEngine
    /\ elseOnFailFunc' = TRUE
    /\ UNCHANGED <<nodes, elseEngine, onSuccessFunc, onFailFunc, elseOnSuccessFunc,
                   runVars>>

ElseOnSuccess ==
    /\ pc = "build" /\ elseEngine
    /\ elseOnSuccessFunc' = TRUE
    /\ UNCHANGED <<nodes, elseEngine, onSuccessFunc, onFailFunc, elseOnFailFunc,
                   runVars>>

(***************************************************************************)
(* Wait, in steps: the call, one step per node of the list (one per        *)
(* goroutine step inside a Parallel node), and the callbacks with the      *)
(* return.                                                                 *)
(***************************************************************************)
WaitBegin(maxWaits) ==
    /\ pc \in {"build", "done"} /\ waits < maxWaits
    /\ pc' = "run"
    /\ idx' = 1
    /\ waits' = waits + 1
    /\ waiter' = "FlowEngine"
    /\ trace' = <<>>
    /\ UNCHANGED <<builderVars, result, returned, parVars, stray, firstFail>>

\* Run of a node that is not a Parallel node.
RunNode ==
    /\ pc = "run" /\ idx <= Len(nodes)
    /\ nodes[idx].NodeType # ParallelNodeType
    /\ IF Gate(nodes[idx], result)
       THEN /\ idx' = idx + 1
            /\ UNCHANGED <<nodes, result, pc, trace, firstFail>>
       ELSE LET t == ImplTask(nodes, idx, result)
                cell == WriteBack(t.ret, result)
            IN IF t.panic
               THEN /\ pc' = "crashed"
                    /\ trace' = trace \o BeginEvents(nodes[idx], idx) \o t.calls
                    /\ UNCHANGED <<nodes, result, idx, firstFail>>
               ELSE /\ nodes' = t.nodes
                    /\ result' = cell
                    /\ firstFail' = NoteFail(firstFail, t.ret)
                    /\ trace' = trace \o BeginEvents(nodes[idx], idx) \o t.calls
                                      \o EndEvents(nodes[idx], idx, cell)
                    /\ idx' = idx + 1
                    /\ pc' = "run"
    /\ UNCHANGED <<elseEngine, callbackVars, waitVars, parVars, stray>>

\* ParallelNode.Run up to the range loop of ImplTask: the gate, the begin
\* hook, make(chan, k), wg.Add(k), the closer and the k task goroutines.
ParallelStart ==
    /\ pc = "run" /\ idx <= Len(nodes)
    /\ nodes[idx].NodeType = ParallelNodeType
    /\ IF Gate(nodes[idx], result)
       THEN /\ idx' = idx + 1
            /\ UNCHANGED <<pc, trace, parVars>>
       ELSE /\ pc' = "par"
            /\ trace' = trace \o BeginEvents(nodes[idx], idx)
            /\ resultChan' = <<>>
            /\ closed' = FALSE
            /\ wg' = Len(nodes[idx].Functors)
            /\ tasks' = [j \in 1..Len(nodes[idx].Functors) |->
                            [st |-> "start", val |-> NilResult]]
            /\ local' = result
            /\ idx' = idx
    /\ UNCHANGED <<builderVars, result, waitVars, stray, firstFail>>

\* result := f(p.Data) in task goroutine j.
TaskCall(j) ==
    /\ pc = "par" /\ j \in DOMAIN tasks /\ tasks[j].st = "start"
    /\ LET f == nodes[idx].Functors[j]
       IN tasks' = IF f \in Panicking
                   THEN [tasks EXCEPT ![j].st = "panicked"]
                   ELSE [tasks EXCEPT ![j] = [st |-> "send", val |-> Call(f, idx, j, 0)]]
    /\ UNCHANGED <<builderVars, result, pc, idx, waitVars, resultChan, closed, wg, local,
                   stray, trace, firstFail>>

\* resultChan <- result.  The channel holds k results, so the send does
\* not block; a send on a closed channel panics.
TaskSend(j) ==
    /\ pc = "par" /\ j \in DOMAIN tasks /\ tasks[j].st = "send"
    /\ Len(resultChan) < Len(tasks)
    /\ IF closed
       THEN /\ pc' = "crashed"
            /\ UNCHANGED <<resultChan, tasks>>
       ELSE /\ resultChan' = Append(resultChan, tasks[j].val)
            /\ tasks' = [tasks EXCEPT ![j].st = "sent"]
            /\ pc' = pc
    /\ UNCHANGED <<builderVars, result, idx, waitVars, closed, wg, local, stray, trace,
                   firstFail>>

\* The deferred function's first statement: wg.Done().
TaskDone(j) ==
    /\ pc = "par" /\ j \in DOMAIN tasks /\ tasks[j].st \in {"sent", "panicked"}
    /\ wg' = wg - 1
    /\ tasks' = [tasks EXCEPT ![j].st = IF tasks[j].st = "panicked" THEN "recover" ELSE "exit"]
    /\ UNCHANGED <<builderVars, result, pc, idx, waitVars, resultChan, closed, local, stray,
                   trace, firstFail>>

\* if a := recover(); a != nil { resultChan <- &ResultTest{Err: NewPanicHappened("")} },
\* after wg.Done(): the send panics when the closer has closed the channel,
\* and nothing recovers a panic raised in the deferred function.
TaskRecover(j) ==
    /\ pc = "par" /\ j \in DOMAIN tasks /\ tasks[j].st = "recover"
    /\ IF closed
       THEN /\ pc' = "crashed"
            /\ UNCHANGED <<resultChan, tasks>>
       ELSE /\ Len(resultChan) < Len(tasks)
            /\ resultChan' = Append(resultChan, PanicResult(idx, j))
            /\ tasks' = [tasks EXCEPT ![j].st = "exit"]
            /\ pc' = pc
    /\ UNCHANGED <<builderVars, result, idx, waitVars, closed, wg, local, stray, trace,
                   firstFail>>

CloserEarly ==
    /\ pc = "par" /\ ~closed
    /\ closed' = TRUE
    /\ UNCHANGED <<builderVars, result, pc, idx, waitVars, resultChan, wg, tasks, local,
                   stray, trace, firstFail>>

\* go func() { wg.Wait(); close(resultChan) }
Closer ==
    /\ pc = "par" /\ wg = 0 /\ ~closed
    /\ closed' = TRUE
    /\ UNCHANGED <<builderVars, result, pc, idx, waitVars, resultChan, wg, tasks, local,
                   stray, trace, firstFail>>

AggregateLast(cur, item) == item

\* One round of for item := range resultChan.
Aggregate(cur, item) == IF IsFailing(cur) THEN cur ELSE item

ParallelRecv ==
    /\ pc = "par" /\ resultChan # <<>>
    /\ local' = Aggregate(local, Head(resultChan))
    /\ resultChan' = Tail(resultChan)
    /\ UNCHANGED <<builderVars, result, pc, idx, waitVars, closed, wg, tasks, stray, trace,
                   firstFail>>

\* The range loop ends on the closed, drained channel; ImplTask returns
\* and Run writes the cell and calls the end hook.  A goroutine that has
\* still to send its panic result stays behind.
ParallelEnd ==
    /\ pc = "par" /\ resultChan = <<>> /\ closed
    /\ LET cell == WriteBack(local, result)
       IN /\ result' = cell
          /\ trace' = trace \o EndEvents(nodes[idx], idx, cell)
    /\ firstFail' = NoteFail(firstFail, local)
    /\ stray' = (stray \/ \E j \in DOMAIN tasks : tasks[j].st = "recover")
    /\ tasks' = <<>>
    /\ local' = NilResult
    /\ closed' = FALSE
    /\ pc' = "run"
    /\ idx' = idx + 1
    /\ UNCHANGED <<builderVars, waitVars, resultChan, wg>>

\* A goroutine left behind by an earlier Parallel node sends on its closed channel.
StraySend ==
    /\ stray /\ pc \in {"run", "par", "done"}
    /\ pc' = "crashed"
    /\ UNCHANGED <<builderVars, result, idx, waitVars, parVars, stray, trace, firstFail>>

\* Wait on the conditional sub-builder: the same loop over the shared list.
ElseWaitBegin(maxWaits) ==
    /\ pc \in {"build", "done"} /\ waits < maxWaits
    /\ elseEngine
    /\ pc' = "run"
    /\ idx' = 1
    /\ waits' = waits + 1
    /\ waiter' = "ElseFlowEngine"
    /\ trace' = <<>>
    /\ UNCHANGED <<builderVars, result, returned, parVars, stray, firstFail>>

\* The two if-blocks after the loop of Wait: the callbacks that an engine
\* with the fields onSuccess and onFail invokes on the cell.
CallbackEventsBoth(onSuccess, onFail, cell) ==
    (IF onSuccess THEN <<Event("onSuccess", 0, 0, 0, cell)>> ELSE <<>>)
    \o (IF onFail THEN <<Event("onFail", 0, 0, 0, cell)>> ELSE <<>>)

CallbackEvents(onSuccess, onFail, cell) ==
    (IF onSuccess /\ cell.Err = NoErr /\ cell.StatusCode = 0
     THEN <<Event("onSuccess", 0, 0, 0, cell)>> ELSE <<>>)
    \o (IF onFail /\ (cell.Err # NoErr \/ cell.StatusCode # 0)
        THEN <<Event("onFail", 0, 0, 0, cell)>> ELSE <<>>)

\* The end of Wait: the callbacks of the engine Wait was called on, and
\* the return of the cell's value.
WaitEnd ==
    /\ pc = "run" /\ idx > Len(nodes)
    /\ trace' = trace \o (IF waiter = "ElseFlowEngine"
                          THEN CallbackEvents(elseOnSuccessFunc, elseOnFailFunc, result)
                          ELSE CallbackEvents(onSuccessFunc, onFailFunc, result))
    /\ returned' = result
    /\ pc' = "done"
    /\ UNCHANGED <<builderVars, result, idx, waits, waiter, parVars, stray, firstFail>>

(***************************************************************************)
(* Specifications.  Each is the engine driven by one family of callers,    *)
(* which draws the builder's arguments from its own sets.                  *)
(***************************************************************************)
SeqsUpTo(S, n) == UNION {[1..k -> S] : k \in 0..n}
One(S) == {<<f>> : f \in S}

ParallelSteps ==
    \/ \E j \in 1..Len(tasks) : TaskCall(j)
    \/ \E j \in 1..Len(tasks) : TaskSend(j)
    \/ \E j \in 1..Len(tasks) : TaskDone(j)
    \/ \E j \in 1..Len(tasks) : TaskRecover(j)
    \/ Closer
    \/ ParallelRecv
    \/ ParallelEnd

(***************************************************************************)
(* Spec: flows of up to MaxNodes nodes of every kind, each with one        *)
(* closure; the caller appends the nodes, then may set the global hooks,   *)
(* then calls Wait once.                                                   *)
(***************************************************************************)
HooksUnset ==
    \A k \in 1..Len(nodes) :
        nodes[k].BeginLogger = NoLogger /\ nodes[k].EndLogger = NoLogger

FlowBuild ==
    \/ \E fs \in One({"Func1", "Func8", "Func9"}) : Do(fs, MaxNodes)
    \/ \E fs \in One({"Func1", "Func8"}) : For(1, fs, MaxNodes)
    \/ \E fs \in One({"Func1", "Func8", "FuncPanic"}) : Parallel(fs, MaxNodes)
    \/ \E fs \in One({"Func1", "Func8"}), c \in {"CondTrue", "CondFalse"} :
            If(c, fs, MaxNodes)
    \/ \E fs \in One({"Func1", "Func8"}), c \in {"CondTrue", "CondFalse"} :
            ElseIf(c, fs, MaxNodes)
    \/ \E fs \in One({"Func1", "Func8"}) : Else(fs, MaxNodes)
    \/ If(NoCond, <<"Func1">>, MaxNodes)
    \/ ElseIf(NoCond, <<"Func1">>, MaxNodes)

Next ==
    \/ HooksUnset /\ FlowBuild
    \/ SetGlobalBeginLogger("G")
    \/ SetGlobalEndLogger("G")
    \/ WaitBegin(1)
    \/ RunNode
    \/ ParallelStart
    \/ ParallelSteps
    \/ StraySend
    \/ WaitEnd

Spec == Init /\ [][Next]_vars

(***************************************************************************)
(* SpecChain: conditional chains.  Do, If, ElseIf and Else nodes with one  *)
(* closure that succeeds, returns nil or fails, and conditions that are    *)
(* true or false.                                                          *)
(***************************************************************************)
ChainBuild ==
    \/ \E fs \in One({"Func1", "Func8"}) : Do(fs, MaxChain)
    \/ \E fs \in One({"Func1", "Func2", "Func8"}), c \in {"CondTrue", "CondFalse"} :
            If(c, fs, MaxChain)
    \/ \E fs \in One({"Func1", "Func2", "Func8"}), c \in {"CondTrue", "CondFalse"} :
            ElseIf(c, fs, MaxChain)
    \/ \E fs \in One({"Func1", "Func2", "Func8"}) : Else(fs, MaxChain)

NextChain ==
    \/ ChainBuild
    \/ WaitBegin(1)
    \/ RunNode
    \/ WaitEnd

SpecChain == Init /\ [][NextChain]_vars

(***************************************************************************)
(* SpecSeq: one Do or For node with up to MaxSeqFunctors closures.         *)
(***************************************************************************)
SeqBuild ==
    \/ \E fs \in SeqsUpTo(Returning, MaxSeqFunctors) : Do(fs, 1)
    \/ \E fs \in SeqsUpTo(Returning \cup {"FailSecond"}, MaxSeqFunctors),
          n \in -1..MaxSeqTimes :
            For(n, fs, 1)

NextSeq ==
    \/ SeqBuild
    \/ WaitBegin(1)
    \/ RunNode
    \/ WaitEnd

SpecSeq == Init /\ [][NextSeq]_vars

(***************************************************************************)
(* SpecPar: one Parallel node with up to MaxParFunctors closures, each of  *)
(* which returns a result, returns nil or panics, under every interleaving *)
(* of its goroutines.                                                      *)
(***************************************************************************)
ParBuild ==
    \E fs \in SeqsUpTo(Returning \cup Panicking, MaxParFunctors) : Parallel(fs, 1)

NextPar ==
    \/ ParBuild
    \/ WaitBegin(1)
    \/ ParallelStart
    \/ ParallelSteps
    \/ StraySend
    \/ WaitEnd

SpecPar == Init /\ [][NextPar]_vars

(***************************************************************************)
(* SpecCallbacks: flows of up to MaxCallbackNodes Do, For and If nodes;    *)
(* the caller registers callbacks on the builder and on the sub-builder    *)
(* and calls Wait on either.                                               *)
(***************************************************************************)
CallbackBuild ==
    \/ \E fs \in One({"Func1", "Func8"}) : Do(fs, MaxCallbackNodes)
    \/ \E fs \in One({"Func1", "Func9"}) : For(1, fs, MaxCallbackNodes)
    \/ \E fs \in One({"Func1", "Func8"}), c \in {"CondTrue", "CondFalse"} :
            If(c, fs, MaxCallbackNodes)
    \/ \E fs \in One({"Func1", "Func8"}), c \in {"CondTrue", "CondFalse"} :
            ElseFlowEngineIf(c, fs, MaxCallbackNodes)
    \/ OnSuccess
    \/ OnFail
    \/ ElseOnSuccess
    \/ ElseOnFail

NextCallbacks ==
    \/ CallbackBuild
    \/ WaitBegin(1)
    \/ ElseWaitBegin(1)
    \/ RunNode
    \/ WaitEnd

SpecCallbacks == Init /\ [][NextCallbacks]_vars

(***************************************************************************)
(* SpecHooks: flows of up to MaxHookNodes Do, If and Parallel nodes, the   *)
(* Parallel node's closure returning nil, failing or panicking; the caller *)
(* sets per-node hooks ("L") and global hooks ("G") at any point of the    *)
(* build.                                                                  *)
(***************************************************************************)
HookBuild ==
    \/ \E fs \in One({"Func1", "Func8"}) : Do(fs, MaxHookNodes)
    \/ \E c \in {"CondTrue", "CondFalse"} : If(c, <<"Func8">>, MaxHookNodes)
    \/ \E fs \in One({"Func2", "Func8", "FuncPanic"}) : Parallel(fs, MaxHookNodes)
    \/ SetBeginLogger("L")
    \/ SetEndLogger("L")
    \/ SetGlobalBeginLogger("G")
    \/ SetGlobalEndLogger("G")

NextHooks ==
    \/ HookBuild
    \/ WaitBegin(1)
    \/ RunNode
    \/ ParallelStart
    \/ ParallelSteps
    \/ StraySend
    \/ WaitEnd

SpecHooks == Init /\ [][NextHooks]_vars

(***************************************************************************)
(* SpecLoggers: flows of up to MaxLoggerNodes Do and If nodes with the     *)
(* per-node hook "L" and two global hooks "G" and "H", set in any order    *)
(* between the appends.                                                    *)
(***************************************************************************)
GlobalLoggers == {"G", "H"}

LoggerBuild ==
    \/ Do(<<"Func1">>, MaxLoggerNodes)
    \/ If("CondTrue", <<"Func8">>, MaxLoggerNodes)
    \/ SetBeginLogger("L")
    \/ SetEndLogger("L")
    \/ \E g \in GlobalLoggers : SetGlobalBeginLogger(g)
    \/ \E g \in GlobalLoggers : SetGlobalEndLogger(g)

NextLoggers ==
    \/ LoggerBuild
    \/ WaitBegin(1)
    \/ RunNode
    \/ WaitEnd

SpecLoggers == Init /\ [][NextLoggers]_vars

(***************************************************************************)
(* SpecRepeat: flows of up to MaxRepeatNodes nodes of every kind, on which *)
(* the caller calls Wait up to MaxWaits times.                             *)
(***************************************************************************)
RepeatBuild ==
    \/ Do(<<"Func1">>, MaxRepeatNodes)
    \/ For(1, <<"Func1">>, MaxRepeatNodes)
    \/ \E fs \in One({"Func1", "FuncPanic"}) : Parallel(fs, MaxRepeatNodes)
    \/ \E fs \in One({"Func1", "Func8"}), c \in {"CondTrue", "CondFalse"} :
            If(c, fs, MaxRepeatNodes)
    \/ \E c \in {"CondTrue", "CondFalse"} : ElseIf(c, <<"Func1">>, MaxRepeatNodes)
    \/ Else(<<"Func1">>, MaxRepeatNodes)

NextRepeat ==
    \/ RepeatBuild
    \/ WaitBegin(MaxWaits)
    \/ RunNode
    \/ ParallelStart
    \/ ParallelSteps
    \/ StraySend
    \/ WaitEnd

SpecRepeat == Init /\ [][NextRepeat]_vars

(***************************************************************************)
(* SpecParFair: one Parallel node with up to MaxFairFunctors closures      *)
(* (none included), each returning, failing or panicking, under fair       *)
(* scheduling: the Go scheduler runs every goroutine that can take a step, *)
(* so each step of a task goroutine, of the closer and of the goroutine    *)
(* inside Wait is weakly fair.  The caller's own calls are not.            *)
(***************************************************************************)
FairBuild ==
    \E fs \in SeqsUpTo({"Func1", "Func8", "FuncPanic"}, MaxFairFunctors) : Parallel(fs, 1)

NextParFair ==
    \/ FairBuild
    \/ WaitBegin(1)
    \/ ParallelStart
    \/ ParallelSteps
    \/ StraySend
    \/ WaitEnd

Scheduling ==
    /\ \A j \in 1..MaxFairFunctors :
        /\ WF_vars(TaskCall(j))
        /\ WF_vars(TaskSend(j))
        /\ WF_vars(TaskDone(j))
        /\ WF_vars(TaskRecover(j))
    /\ WF_vars(Closer)
    /\ WF_vars(ParallelStart)
    /\ WF_vars(ParallelRecv)
    /\ WF_vars(ParallelEnd)
    /\ WF_vars(StraySend)
    /\ WF_vars(WaitEnd)

SpecParFair == Init /\ [][NextParFair]_vars /\ Scheduling

(***************************************************************************)
(* Properties.                                                             *)
(***************************************************************************)
Events(kinds, i) ==
    {m \in 1..Len(trace) : trace[m].ev \in kinds /\ trace[m].node = i}

\* Node i had a task closure called in this Wait.
Executed(i) == Events({"call"}, i) # {}

\* Node i passed the gate of its Run in this Wait (its condition was asked).
CondAsked(i) == Events({"cond"}, i) # {}

HasHooks(n) == n.BeginLogger # NoLogger /\ n.EndLogger # NoLogger

CellFailing(cell) == cell.Err # NoErr \/ cell.StatusCode # 0

(***************************************************************************)
(* C1: a Run that finds the cell failing (Err set or StatusCode # 0) or    *)
(* the node's skip flag set calls no hook and no closure, launches no      *)
(* task and leaves the cell as it is; so no node after the one that        *)
(* produced the first failing result has a hook or closure called.         *)
(***************************************************************************)
C1_QuietAfterFailure ==
    firstFail.Nil \/
        /\ \A m \in 1..Len(trace) : trace[m].node <= firstFail.Src[1]
        /\ pc = "par" => idx <= firstFail.Src[1]

C1_GatedRunIsNoOp ==
    [][/\ (/\ pc = "run" /\ idx <= Len(nodes)
           /\ (nodes[idx].ShouldSkip \/ CellFailing(result)))
          => /\ trace' = trace /\ result' = result /\ nodes' = nodes
             /\ tasks' = tasks /\ pc' # "par"
       /\ C1_QuietAfterFailure']_vars

\* A Parallel node with both hooks and a closure was passed over after a
\* node before it had failed with a status code alone.
C1_Witness ==
    /\ pc = "done"
    /\ result.Err = NoErr /\ result.StatusCode # 0
    /\ \E i \in 1..Len(nodes) :
        /\ i > result.Src[1]
        /\ nodes[i].NodeType = ParallelNodeType
        /\ HasHooks(nodes[i]) /\ nodes[i].Functors # <<>>
        /\ Events({"begin", "end", "call", "cond"}, i) = {}

\* A skipped node with both hooks was passed over while the cell was not failing.
C1_WitnessSkip ==
    /\ pc = "done"
    /\ ~CellFailing(result)
    /\ \E i \in 1..Len(nodes) :
        /\ nodes[i].ShouldSkip
        /\ HasHooks(nodes[i]) /\ nodes[i].Functors # <<>>
        /\ Events({"begin", "end", "call", "cond"}, i) = {}
        /\ \E k \in 1..Len(nodes) : k > i /\ Events({"begin"}, k) # {}

(***************************************************************************)
(* C2: a failing cell is never replaced, so the result Wait returns is the *)
(* first failing result a node produced, in list order, and is not failing *)
(* when no node produced one.                                              *)
(***************************************************************************)
C2_FirstFailureIsFinal ==
    [][/\ CellFailing(result) => result' = result
       /\ pc' = "done" =>
            IF firstFail'.Nil THEN ~CellFailing(result') ELSE result' = firstFail']_vars

\* Wait returned the failure of a node that is followed by a Do node whose
\* closure fails too.
C2_Witness ==
    /\ pc = "done"
    /\ CellFailing(result)
    /\ \E i \in 1..Len(nodes) :
        /\ i > result.Src[1]
        /\ nodes[i].NodeType = NormalNodeType
        /\ nodes[i].Functors \in {<<"Func8">>, <<"Func9">>}

(***************************************************************************)
(* Conditional chains: an If node and the ElseIf / Else nodes that follow  *)
(* it without a gap.                                                       *)
(***************************************************************************)
ChainHeads == {h \in 1..Len(nodes) : nodes[h].NodeType = IfNodeType}

ChainMembers(h) ==
    {h} \cup {m \in (h + 1)..Len(nodes) :
                \A k \in (h + 1)..m : nodes[k].NodeType \in {ElseIfNodeType, ElseNodeType}}

ChainExecuted(h) == {m \in ChainMembers(h) : Executed(m)}

ChainLast(h) == CHOOSE m \in ChainMembers(h) : \A k \in ChainMembers(h) : k <= m

(***************************************************************************)
(* C3: in one Wait at most one node of an If / ElseIf / Else chain has its *)
(* task closures called, whatever the conditions and the closures' results.*)
(***************************************************************************)
C3_AtMostOneBranch ==
    \A h \in ChainHeads : Cardinality(ChainExecuted(h)) <= 1

\* Wait returned from a chain of three whose If branch ran and succeeded and
\* whose ElseIf, with a true condition, and Else did not run.
C3_Witness ==
    /\ pc = "done"
    /\ ~CellFailing(result)
    /\ \E h \in ChainHeads :
        /\ ChainMembers(h) = {h, h + 1, h + 2}
        /\ nodes[h + 1].NodeType = ElseIfNodeType /\ nodes[h + 1].Condition = "CondTrue"
        /\ nodes[h + 2].NodeType = ElseNodeType
        /\ ChainExecuted(h) = {h}

(***************************************************************************)
(* C4: when a chain whose conditions are all set is reached with a cell    *)
(* that is not failing, and a condition of the chain is true or the chain  *)
(* ends in an Else, exactly one of its branches has its closures called.   *)
(***************************************************************************)
C4_ExactlyOneBranch ==
    pc = "done" =>
        \A h \in ChainHeads :
            (/\ CondAsked(h)
             /\ \A m \in ChainMembers(h) :
                    nodes[m].NodeType # ElseNodeType => nodes[m].Condition # NoCond
             /\ \/ \E m \in ChainMembers(h) : nodes[m].Condition = "CondTrue"
                \/ nodes[ChainLast(h)].NodeType = ElseNodeType)
            => Cardinality(ChainExecuted(h)) = 1

(***************************************************************************)
(* C5: the branch that runs is the first whose condition is true, the      *)
(* trailing Else when none is; for Do(f1).If(false, f2).ElseIf(true, f3)   *)
(* .Else(f4).Wait(), f1 and f3 run and f2 and f4 do not.                   *)
(***************************************************************************)
C5_Scenario ==
    (/\ pc = "done"
     /\ Len(nodes) = 4
     /\ nodes[1].NodeType = NormalNodeType /\ nodes[1].Functors = <<"Func1">>
     /\ nodes[2].NodeType = IfNodeType /\ nodes[2].Condition = "CondFalse"
     /\ nodes[2].Functors = <<"Func2">>
     /\ nodes[3].NodeType = ElseIfNodeType /\ nodes[3].Condition = "CondTrue"
     /\ nodes[3].Functors = <<"Func1">>
     /\ nodes[4].NodeType = ElseNodeType /\ nodes[4].Functors = <<"Func2">>)
    => /\ Executed(1) /\ ~Executed(2) /\ Executed(3) /\ ~Executed(4)

\* The rule the scenario is an instance of.
C5_FirstTrueBranchRuns ==
    pc = "done" =>
        \A h \in ChainHeads :
            CondAsked(h) =>
                \A m \in ChainMembers(h) :
                    Executed(m) <=>
                        /\ nodes[m].NodeType = ElseNodeType \/ nodes[m].Condition = "CondTrue"
                        /\ \A k \in ChainMembers(h) :
                                k < m => nodes[k].Condition # "CondTrue"

(***************************************************************************)
(* Single sequential nodes.  What the closures of the example file return  *)
(* is read off their bodies: Func8 and Func9 fail, FailSecond fails in     *)
(* iteration 2.                                                            *)
(***************************************************************************)
Fails(f, it) == f \in {"Func8", "Func9"} \/ (f = "FailSecond" /\ it = 2)

\* The index of the first closure of fs that fails (in iteration it), 0 if none.
FirstFailing(fs, it) ==
    IF \E j \in 1..Len(fs) : Fails(fs[j], it)
    THEN CHOOSE j \in 1..Len(fs) :
            Fails(fs[j], it) /\ \A k \in 1..(j - 1) : ~Fails(fs[k], it)
    ELSE 0

CallsOf(i) == SelectSeq(trace, LAMBDA e : e.ev = "call" /\ e.node = i)

(***************************************************************************)
(* C6: a Do node run with a cell that is not failing calls its closures in *)
(* order up to and including the first that fails, whose result becomes    *)
(* the cell; nil and non-failing results do not stop it; when no closure   *)
(* fails the cell stays the record it was.                                 *)
(***************************************************************************)
C6_DoFirstFailureWins ==
    (/\ pc = "done" /\ Len(nodes) = 1 /\ nodes[1].NodeType = NormalNodeType)
    => LET fs == nodes[1].Functors
           ff == FirstFailing(fs, 0)
           n == IF ff = 0 THEN Len(fs) ELSE ff
       IN /\ Len(CallsOf(1)) = n
          /\ \A j \in 1..n : CallsOf(1)[j].fn = j
          /\ result = IF ff = 0 THEN tempResult ELSE CallsOf(1)[ff].arg
          /\ ff # 0 => /\ result.Src = <<1, ff, 0>>
                       /\ CellFailing(result)

\* A Do node whose first closure returns nil, whose second succeeds, whose
\* third fails: three calls, the third one's result in the cell.
C6_Witness ==
    /\ pc = "done" /\ Len(nodes) = 1 /\ nodes[1].NodeType = NormalNodeType
    /\ nodes[1].Functors = <<"Func2", "Func1", "Func9">>
    /\ Len(CallsOf(1)) = 3
    /\ result.Src = <<1, 3, 0>>

(***************************************************************************)
(* C7: a For node with count n runs its whole closure list n times, stops  *)
(* at the first failing result of any iteration, which becomes the cell,   *)
(* and with n <= 0 calls nothing and leaves the cell as it was.            *)
(***************************************************************************)
\* The iterations a For node with count n and closures fs goes through, the
\* last one being the first with a failing closure.
ForIterations(fs, n) ==
    IF \E it \in 1..n : FirstFailing(fs, it) # 0
    THEN CHOOSE it \in 1..n :
            FirstFailing(fs, it) # 0 /\ \A k \in 1..(it - 1) : FirstFailing(fs, k) = 0
    ELSE IF n > 0 THEN n ELSE 0

C7_ForStopsAtFirstFailure ==
    (/\ pc = "done" /\ Len(nodes) = 1 /\ nodes[1].NodeType = ForNodeType)
    => LET fs == nodes[1].Functors
           n == nodes[1].Times
           last == ForIterations(fs, n)
           ff == IF last = 0 THEN 0 ELSE FirstFailing(fs, last)
           full == IF ff = 0 THEN last ELSE last - 1
           calls == CallsOf(1)
       IN /\ Len(calls) = full * Len(fs) + ff
          /\ \A m \in 1..Len(calls) :
                /\ calls[m].it = ((m - 1) \div Len(fs)) + 1
                /\ calls[m].fn = ((m - 1) % Len(fs)) + 1
          /\ result = IF ff = 0 THEN tempResult ELSE calls[Len(calls)].arg
          /\ ff # 0 => /\ result.Src = <<1, ff, last>>
                       /\ CellFailing(result)
          /\ n <= 0 => calls = <<>> /\ result = tempResult

\* A For node with count 3 whose second closure fails on the second
\* iteration: two closures in the first iteration, two in the second, none
\* in a third.
C7_Witness ==
    /\ pc = "done" /\ Len(nodes) = 1 /\ nodes[1].NodeType = ForNodeType
    /\ nodes[1].Times = 3
    /\ nodes[1].Functors = <<"Func1", "FailSecond">>
    /\ Len(CallsOf(1)) = 4
    /\ result.Src = <<1, 2, 2>>
    /\ result.Err = SomethingWrong

\* A For node with count 0 and closures: Wait returned, nothing was called.
C7_WitnessZero ==
    /\ pc = "done" /\ Len(nodes) = 1 /\ nodes[1].NodeType = ForNodeType
    /\ nodes[1].Times = 0 /\ nodes[1].Functors # <<>>
    /\ trace = <<>> /\ result = tempResult

(***************************************************************************)
(* Single Parallel nodes.                                                  *)
(***************************************************************************)
\* Run of node 1 has returned.
FirstNodeDone == pc \in {"run", "done"} /\ idx > 1

\* The channel is closed only after every task's closure has returned or
\* panicked and the task has called wg.Done().
Barrier ==
    (pc = "par" /\ closed) => \A j \in DOMAIN tasks : tasks[j].st \in {"exit", "recover"}

OnlyParallel(S) ==
    /\ Len(nodes) = 1 /\ nodes[1].NodeType = ParallelNodeType
    /\ \A j \in 1..Len(nodes[1].Functors) : nodes[1].Functors[j] \in S

(***************************************************************************)
(* C8: a Parallel node none of whose closures fails or panics leaves the   *)
(* cell the record it was, and its Run returns only after every closure    *)
(* has completed, whatever the arrival order.                              *)
(***************************************************************************)
C8_ParallelLeavesCell ==
    OnlyParallel({"Func1", "Func2"})
    => /\ Barrier
       /\ FirstNodeDone => result = tempResult

\* What the code does instead: the cell is the initial record or the
\* record of one of the closures that returned one.
C8_CellIsSomeResult ==
    (OnlyParallel({"Func1", "Func2"}) /\ FirstNodeDone)
    => /\ ~CellFailing(result)
       /\ \/ result = tempResult
          \/ \E j \in 1..Len(nodes[1].Functors) :
                nodes[1].Functors[j] = "Func1" /\ result.Src = <<1, j, 0>>

(***************************************************************************)
(* C9: a Parallel node exactly one of whose closures returns a failing     *)
(* result, the others returning nil or results that are not failing,       *)
(* leaves that closure's result in the cell under every interleaving.      *)
(***************************************************************************)
C9_SingleFailureWins ==
    (/\ OnlyParallel(Returning)
     /\ FirstNodeDone)
    => \A j \in 1..Len(nodes[1].Functors) :
        (/\ nodes[1].Functors[j] \in {"Func8", "Func9"}
         /\ \A k \in 1..Len(nodes[1].Functors) :
                k # j => nodes[1].Functors[k] \in {"Func1", "Func2"})
        => result = [Nil |-> FALSE,
                     Err |-> IF nodes[1].Functors[j] = "Func8" THEN SomethingWrong ELSE NoErr,
                     StatusCode |-> IF nodes[1].Functors[j] = "Func9" THEN 10000 ELSE 0,
                     Src |-> <<1, j, 0>>]

\* Three closures, the first failing with a status code, the others
\* returning a result and nil: Run has returned with the first one's result.
C9_Witness ==
    /\ OnlyParallel(Returning)
    /\ FirstNodeDone
    /\ nodes[1].Functors = <<"Func9", "Func1", "Func2">>
    /\ result.Src = <<1, 1, 0>>

\* The failing result was received first and a later result is in the channel.
C9_WitnessLate ==
    /\ OnlyParallel(Returning)
    /\ pc = "par"
    /\ nodes[1].Functors = <<"Func1", "Func9", "Func1">>
    /\ local.Src = <<1, 2, 0>>
    /\ Len(resultChan) = 2

(***************************************************************************)
(* C10: a Parallel node one of whose closures panics (the others neither   *)
(* failing nor panicking) ends with a failing result carrying the          *)
(* PanicHappened marker; the panic crashes nothing, and Run waits for      *)
(* every closure.                                                          *)
(***************************************************************************)
C10_PanicContained ==
    (/\ OnlyParallel({"Func1", "Func2", "FuncPanic"})
     /\ Cardinality({j \in 1..Len(nodes[1].Functors) :
                        nodes[1].Functors[j] = "FuncPanic"}) = 1)
    => /\ pc # "crashed"
       /\ Barrier
       /\ FirstNodeDone => result.Err = PanicHappened

\* The panic's result can also be lost without a crash: Run returns with a
\* cell that is not failing while the panicked task has still to send.
C10_PanicNeverLost ==
    (/\ OnlyParallel({"Func1", "Func2", "FuncPanic"})
     /\ Cardinality({j \in 1..Len(nodes[1].Functors) :
                        nodes[1].Functors[j] = "FuncPanic"}) = 1
     /\ FirstNodeDone)
    => result.Err = PanicHappened

(***************************************************************************)
(* C11: FlowEngine.Wait runs every node of the list and only then          *)
(* dispatches callbacks: the registered success callback once iff the      *)
(* final cell is not failing, the registered failure callback once iff it  *)
(* is failing, never both; the callback receives, and Wait returns, the    *)
(* final cell.                                                             *)
(***************************************************************************)
CallbackCalls(kind) == {m \in 1..Len(trace) : trace[m].ev = kind}

C11_CallbacksAfterNodes ==
    /\ pc = "run" => CallbackCalls("onSuccess") \cup CallbackCalls("onFail") = {}
    /\ (pc = "done" /\ waiter = "FlowEngine") =>
        /\ idx = Len(nodes) + 1
        /\ Cardinality(CallbackCalls("onSuccess")) =
                IF onSuccessFunc /\ ~CellFailing(result) THEN 1 ELSE 0
        /\ Cardinality(CallbackCalls("onFail")) =
                IF onFailFunc /\ CellFailing(result) THEN 1 ELSE 0
        /\ Cardinality(CallbackCalls("onSuccess") \cup CallbackCalls("onFail")) <= 1
        /\ \A m \in CallbackCalls("onSuccess") \cup CallbackCalls("onFail") :
                m = Len(trace) /\ trace[m].arg = result
        /\ returned = result

C11_Witness ==
    /\ pc = "done" /\ waiter = "FlowEngine"
    /\ onSuccessFunc /\ onFailFunc
    /\ Len(nodes) = 2 /\ Executed(1)
    /\ CellFailing(result)
    /\ Len(trace) > 1
    /\ trace[Len(trace)].ev = "onFail"

(***************************************************************************)
(* C12: a Wait called on either builder invokes the callbacks registered   *)
(* on either builder, as the final cell decides: a callback registered on  *)
(* FlowEngine and one registered on ElseFlowEngine are the same to a Wait  *)
(* on FlowEngine and to a Wait on ElseFlowEngine.                          *)
(***************************************************************************)
IsCallback(e) == e.ev \in {"onSuccess", "onFail"}

C12_EitherBuilderSameCallbacks ==
    (pc = "done" /\ elseEngine) =>
        SelectSeq(trace, IsCallback) =
            CallbackEvents(onSuccessFunc \/ elseOnSuccessFunc,
                           onFailFunc \/ elseOnFailFunc, result)

(***************************************************************************)
(* C13: an If or ElseIf node without a condition, run with a cell that is  *)
(* not failing, calls none of its closures and writes a failing result     *)
(* with ConditionNotFoundError to the cell; its Run returns normally, and  *)
(* every later node of the list is short-circuited.                        *)
(***************************************************************************)
MissingCondition(i) ==
    /\ nodes[i].NodeType \in {IfNodeType, ElseIfNodeType}
    /\ nodes[i].Condition = NoCond

\* The next step is the Run of such a node, and the node passes the gate.
MissingConditionRuns ==
    /\ pc = "run" /\ idx <= Len(nodes) /\ ~stray
    /\ MissingCondition(idx)
    /\ ~Gate(nodes[idx], result)

\* Node i was such a node and it produced the flow's first failure.  (The
\* only crash after it is that of a goroutine which an earlier Parallel
\* node left behind, see C10.)
MissingConditionRan(i) ==
    /\ MissingCondition(i)
    /\ ~firstFail.Nil /\ firstFail.Src = <<i, 0, 0>>

C13_RunStep ==
    MissingConditionRuns =>
        /\ pc' = "run" /\ idx' = idx + 1
        /\ ~result'.Nil
        /\ result'.Err = ConditionNotFoundError
        /\ result'.Src = <<idx, 0, 0>>
        /\ CellFailing(result')
        /\ nodes' = nodes
        /\ \A m \in 1..Len(trace') : m > Len(trace) => trace'[m].ev \in {"begin", "end"}
        /\ \A k \in (idx + 1)..Len(nodes) : Gate(nodes'[k], result')

C13_After ==
    \A i \in 1..Len(nodes) :
        MissingConditionRan(i) =>
            /\ result.Err = ConditionNotFoundError /\ result.Src = <<i, 0, 0>>
            /\ Events({"call", "cond"}, i) = {}
            /\ \A k \in (i + 1)..Len(nodes) : Events({"begin", "end", "cond", "call"}, k) = {}
            /\ idx > i
            /\ stray \/ pc \in {"run", "done"}

C13_ConditionMissing == []C13_After /\ [][C13_RunStep]_vars

\* If(..).Do(..).ElseIf(nil, ..): the ElseIf is not skipped and runs.
C13_WitnessElseIf ==
    /\ pc = "done" /\ Len(nodes) = 3
    /\ nodes[3].NodeType = ElseIfNodeType /\ MissingConditionRan(3)
    /\ Executed(2)
    /\ result.Err = ConditionNotFoundError

\* If(nil, ..).ElseIf(..) and a third node: only the If has run.
C13_Witness ==
    /\ pc = "done" /\ Len(nodes) = 3
    /\ nodes[1].NodeType = IfNodeType /\ MissingConditionRan(1)
    /\ nodes[2].NodeType = ElseIfNodeType /\ ~nodes[2].ShouldSkip
    /\ result.Err = ConditionNotFoundError

(***************************************************************************)
(* C14: in ParallelNode.ImplTask every launched task, also one whose       *)
(* closure panicked and which reports through its recover handler, has     *)
(* completed its send when the channel is closed: no task sends on the     *)
(* closed channel, and none has its outcome still to send when the         *)
(* aggregation loop has ended.                                             *)
(***************************************************************************)
C14_SendsBeforeClose ==
    /\ (pc = "par" /\ closed) => \A j \in DOMAIN tasks : tasks[j].st = "exit"
    /\ ~stray
    /\ pc # "crashed"

\* The same for flows without a panicking closure, where it holds.
C14_SendsBeforeCloseNoPanic ==
    OnlyParallel(Returning) => C14_SendsBeforeClose

(***************************************************************************)
(* C15: with the outcomes of its closures fixed, a Parallel node leaves    *)
(* the cell failing under every interleaving iff at least one closure      *)
(* failed or panicked.                                                     *)
(***************************************************************************)
SomeClosureFails ==
    \E j \in 1..Len(nodes[1].Functors) :
        \/ nodes[1].Functors[j] \in Panicking
        \/ IsFailing(Call(nodes[1].Functors[j], 1, j, 0))

C15_FailingIffSomeFailure ==
    (Len(nodes) = 1 /\ nodes[1].NodeType = ParallelNodeType /\ FirstNodeDone)
    => (CellFailing(result) <=> SomeClosureFails)

\* The same for flows without a panicking closure, where it holds.
C15_FailingIffSomeFailureNoPanic ==
    OnlyParallel(Returning) => C15_FailingIffSomeFailure

(***************************************************************************)
(* C16: when an If or ElseIf node with a condition runs and its closures   *)
(* return no failing result, then after its ImplTask, the condition true   *)
(* or false, every node of the contiguous run of ElseIf/Else nodes that    *)
(* follows it along the Next links has its skip flag set; the walk stops   *)
(* at the first node that is neither, and nothing else is changed.         *)
(***************************************************************************)
RECURSIVE SiblingRun(_, _)
SiblingRun(ns, cur) ==
    IF cur = 0 \/ cur > Len(ns) THEN {}
    ELSE IF ns[cur].NodeType \notin {ElseIfNodeType, ElseNodeType} THEN {}
    ELSE {cur} \cup SiblingRun(ns, ns[cur].Next)

ClosuresFail(i) ==
    /\ CondValue(nodes[i].Condition)
    /\ \E j \in 1..Len(nodes[i].Functors) : IsFailing(Call(nodes[i].Functors[j], i, j, 0))

ConditionalRuns ==
    /\ pc = "run" /\ idx <= Len(nodes)
    /\ nodes[idx].NodeType \in {IfNodeType, ElseIfNodeType}
    /\ nodes[idx].Condition # NoCond
    /\ ~Gate(nodes[idx], result)
    /\ ~ClosuresFail(idx)

C16_Step ==
    ConditionalRuns =>
        /\ idx' = idx + 1
        /\ Len(nodes') = Len(nodes)
        /\ \A k \in 1..Len(nodes) :
            IF k \in SiblingRun(nodes, nodes[idx].Next)
            THEN nodes'[k] = [nodes[k] EXCEPT !.ShouldSkip = TRUE]
            ELSE nodes'[k] = nodes[k]

C16_SkipWalk == [][C16_Step]_vars

\* If(CondFalse, ..).ElseIf(..).Else(..).Do(..): the If has run.
C16_Witness ==
    /\ pc = "run" /\ idx = 2 /\ Len(nodes) = 4
    /\ nodes[1].NodeType = IfNodeType /\ nodes[1].Condition = "CondFalse"
    /\ nodes[2].NodeType = ElseIfNodeType /\ nodes[2].ShouldSkip
    /\ nodes[3].NodeType = ElseNodeType /\ nodes[3].ShouldSkip
    /\ nodes[4].NodeType = NormalNodeType /\ ~nodes[4].ShouldSkip

\* If(..).Do(..).ElseIf(CondTrue, ..).Else(..): the ElseIf has run.
C16_WitnessElseIf ==
    /\ pc = "run" /\ idx = 4 /\ Len(nodes) = 4
    /\ nodes[3].NodeType = ElseIfNodeType /\ Executed(3)
    /\ nodes[4].NodeType = ElseNodeType /\ nodes[4].ShouldSkip

(***************************************************************************)
(* C17: Wait runs the nodes one after the other in insertion order: every  *)
(* closure call of node i, the closures a Parallel node launched included, *)
(* has returned or panicked before a hook, the condition or a closure of a *)
(* later node is called.                                                   *)
(***************************************************************************)
NodeEvents == {m \in 1..Len(trace) : trace[m].node # 0}

C17_Order ==
    /\ \A m, n \in NodeEvents : m < n => trace[m].node <= trace[n].node
    /\ \A m \in NodeEvents : trace[m].node <= idx
    /\ pc = "par" => /\ nodes[idx].NodeType = ParallelNodeType
                     /\ DOMAIN tasks = 1..Len(nodes[idx].Functors)
    /\ pc \in {"build", "run", "done"} => tasks = <<>>

C17_Step ==
    /\ \A m \in (Len(trace) + 1)..Len(trace') : trace'[m].node \in {0, idx}
    /\ (pc = "par" /\ idx' # idx) =>
            \A j \in DOMAIN tasks : tasks[j].st \in {"exit", "recover"}
    /\ (pc = "par" /\ pc' = "par") => DOMAIN tasks' = DOMAIN tasks

C17_Sequential == []C17_Order /\ [][C17_Step]_vars

C17_Witness ==
    /\ pc = "done" /\ Len(nodes) = 3
    /\ nodes[1].NodeType = ParallelNodeType /\ Events({"begin"}, 1) # {}
    /\ Events({"end"}, 1) # {}
    /\ Executed(2) /\ Executed(3)

(***************************************************************************)
(* C18: in a Run that passes the gate the begin hook, if set, is called    *)
(* before any condition or closure of the node; a non-nil result of        *)
(* ImplTask is written to the cell and a nil one leaves the cell as it     *)
(* is; the end hook, if set, is called after the write with the cell's     *)
(* value, also when the node produced the failing result.                  *)
(***************************************************************************)
NewEvents == SubSeq(trace', Len(trace) + 1, Len(trace'))

HookCalls(es, kind) == {m \in 1..Len(es) : es[m].ev = kind}

\* A sequential node's Run from the gate to its return.
C18_SequentialRun ==
    (/\ pc = "run" /\ idx <= Len(nodes) /\ idx' = idx + 1
     /\ nodes[idx].NodeType # ParallelNodeType
     /\ ~Gate(nodes[idx], result))
    => LET n == nodes[idx]
           ret == ImplTask(nodes, idx, result).ret
       IN /\ HookCalls(NewEvents, "begin") = IF n.BeginLogger # NoLogger THEN {1} ELSE {}
          /\ HookCalls(NewEvents, "end") =
                IF n.EndLogger # NoLogger THEN {Len(NewEvents)} ELSE {}
          /\ \A m \in HookCalls(NewEvents, "end") : NewEvents[m].arg = result'
          /\ \A m \in 1..Len(NewEvents) : NewEvents[m].node = idx
          /\ result' = IF ret.Nil THEN result ELSE ret
          /\ \A m \in HookCalls(NewEvents, "call") :
                IsFailing(NewEvents[m].arg) => result' = NewEvents[m].arg

\* A Parallel node's Run from the gate to the launch of its tasks.
C18_ParallelBegin ==
    (pc = "run" /\ pc' = "par")
    => /\ NewEvents = IF nodes[idx].BeginLogger # NoLogger
                      THEN <<Event("begin", idx, 0, 0, NilResult)>> ELSE <<>>
       /\ \A j \in DOMAIN tasks' : tasks'[j].st = "start"
       /\ result' = result

\* A Parallel node's Run from the end of the range loop to its return.
C18_ParallelEnd ==
    (pc = "par" /\ pc' = "run")
    => /\ result' = IF local.Nil THEN result ELSE local
       /\ NewEvents = IF nodes[idx].EndLogger # NoLogger
                      THEN <<Event("end", idx, 0, 0, result')>> ELSE <<>>

\* No other step of a Run calls a hook or writes the cell.
C18_Inside ==
    (pc = "par" /\ pc' # "run") => (trace' = trace /\ result' = result)

C18_HooksAroundWrite ==
    [][C18_SequentialRun /\ C18_ParallelBegin /\ C18_ParallelEnd /\ C18_Inside]_vars

\* Do(Func1) and Parallel(Func2) with both hooks: the Parallel node's
\* result is nil, the cell is as it was and the end hook received it.
C18_Witness ==
    /\ pc = "done" /\ Len(nodes) = 2
    /\ nodes[2].NodeType = ParallelNodeType /\ nodes[2].Functors = <<"Func2">>
    /\ HasHooks(nodes[2])
    /\ Events({"begin"}, 2) # {}
    /\ \E m \in Events({"end"}, 2) : trace[m].arg = tempResult
    /\ result = tempResult

\* If(CondTrue, Func8) with both hooks: the node produced the failure and
\* its end hook received it.
C18_WitnessFailing ==
    /\ pc = "done" /\ Len(nodes) = 2
    /\ nodes[1].NodeType = IfNodeType /\ HasHooks(nodes[1])
    /\ Executed(1) /\ CellFailing(result)
    /\ \E m \in Events({"end"}, 1) : trace[m].arg = result /\ m = Len(trace)

(***************************************************************************)
(* C19: SetGlobalBeginLogger / SetGlobalEndLogger give the hook to every   *)
(* node of the list that has none of that kind and leave the hook of a     *)
(* node that has one (set for the node, or by an earlier global call) as   *)
(* it is; no other field of a node, nor the list, the cell or any other    *)
(* part of the engine changes.                                             *)
(***************************************************************************)
\* A step that gives some node the global begin (end) hook g.
GlobalBeginSet(g) ==
    /\ Len(nodes') = Len(nodes)
    /\ \E k \in 1..Len(nodes) : nodes'[k].BeginLogger = g /\ nodes[k].BeginLogger # g

GlobalEndSet(g) ==
    /\ Len(nodes') = Len(nodes)
    /\ \E k \in 1..Len(nodes) : nodes'[k].EndLogger = g /\ nodes[k].EndLogger # g

C19_Step ==
    \A g \in GlobalLoggers :
        /\ GlobalBeginSet(g) =>
            /\ \A k \in 1..Len(nodes) :
                nodes'[k] = IF nodes[k].BeginLogger = NoLogger
                            THEN [nodes[k] EXCEPT !.BeginLogger = g]
                            ELSE nodes[k]
            /\ UNCHANGED <<result, elseEngine, callbackVars, runVars>>
        /\ GlobalEndSet(g) =>
            /\ \A k \in 1..Len(nodes) :
                nodes'[k] = IF nodes[k].EndLogger = NoLogger
                            THEN [nodes[k] EXCEPT !.EndLogger = g]
                            ELSE nodes[k]
            /\ UNCHANGED <<result, elseEngine, callbackVars, runVars>>

C19_GlobalHooksFillOnly == [][C19_Step]_vars

\* The begin hooks from SetGlobalBeginLogger("G"), an append and
\* SetGlobalBeginLogger("H"); the end hooks from SetEndLogger("L"), an
\* append and SetGlobalEndLogger("G").
C19_Witness ==
    /\ Len(nodes) = 2
    /\ nodes[1].BeginLogger = "G" /\ nodes[2].BeginLogger = "H"
    /\ nodes[1].EndLogger = "L" /\ nodes[2].EndLogger = "G"

(***************************************************************************)
(* C20: after any builder calls and any number of Wait calls a node whose  *)
(* skip flag is set is an ElseIf or an Else node (Normal, If, For and      *)
(* Parallel nodes are never marked), and a skip flag that is set stays     *)
(* set, also through later Wait calls.                                     *)
(***************************************************************************)
C20_OnlyBranchesSkipped ==
    \A k \in 1..Len(nodes) :
        nodes[k].ShouldSkip => nodes[k].NodeType \in {ElseIfNodeType, ElseNodeType}

C20_SkipStays ==
    \A k \in 1..Len(nodes) :
        nodes[k].ShouldSkip => (k <= Len(nodes') /\ nodes'[k].ShouldSkip)

C20_SkipFlag == []C20_OnlyBranchesSkipped /\ [][C20_SkipStays]_vars

\* If(CondTrue, ..).ElseIf(..).Do(..) at the end of its second Wait.
C20_Witness ==
    /\ waits = 2 /\ pc = "done" /\ Len(nodes) = 3
    /\ nodes[1].NodeType = IfNodeType /\ Executed(1)
    /\ nodes[2].NodeType = ElseIfNodeType /\ nodes[2].ShouldSkip /\ ~CondAsked(2)
    /\ nodes[3].NodeType = NormalNodeType /\ ~nodes[3].ShouldSkip /\ Executed(3)

(***************************************************************************)
(* C21: under fair scheduling ParallelNode.ImplTask always terminates when *)
(* every closure returns or panicks, for any number of closures, none      *)
(* included: no task blocks on its send, the closer closes the channel     *)
(* and the range loop ends, so Run returns.                                *)
(***************************************************************************)
C21_ImplTaskTerminates == (pc = "par") ~> FirstNodeDone

\* Without a panicking closure ImplTask does return.
C21_TerminatesNoPanic == (pc = "par" /\ OnlyParallel(Returning)) ~> FirstNodeDone

\* ImplTask never hangs: it returns, or the program has crashed on the
\* send of a recover handler on the closed channel (C10).
C21_ReturnsOrCrashes == (pc = "par") ~> (FirstNodeDone \/ pc = "crashed")

\* A send never blocks: the results in the channel and the tasks that have
\* still to send are never more than the channel's capacity.
C21_SendNeverBlocks ==
    pc = "par" =>
        Len(resultChan)
        + Cardinality({j \in DOMAIN tasks :
                          tasks[j].st \in {"start", "send", "panicked", "recover"}})
        <= Len(nodes[idx].Functors)

\* ImplTask of a Parallel node without closures returns.
C21_WitnessNoClosures ==
    FirstNodeDone /\ nodes[1].Functors = <<>> /\ result = tempResult
====
